---- MODULE Spec2Model ----
(***************************************************************************)
(* Model of the event bus of src/src/main.rs (module event_bus).           *)
(*                                                                         *)
(* EventBus owns a HashMap from event name to a Vec of boxed Subscribers.  *)
(* The operations are subscribe, unsubscribe, subscribe_all,               *)
(* unsubscribe_all and post.  Every operation is one atomic step: the bus  *)
(* is used through &mut self, so no two operations overlap.                *)
(***************************************************************************)
EXTENDS Integers, Sequences, FiniteSets, TLC

\* ------------------------------------------------------------------------
\* Bounds of the model
\* ------------------------------------------------------------------------
\* number of Subscriber values registered after the bus was constructed
MaxSubs == 2
\* number of calls of registered Subscribers that the posts of a run make
MaxCalls == 2
\* length of the Vec handed to subscribe_all / unsubscribe_all
MaxList == 2

\* ------------------------------------------------------------------------
\* Values
\* ------------------------------------------------------------------------
\* Event names: Strings compared exactly by the HashMap ("a" and "A" are
\* different keys, "" is a key like any other).
Names == {"", "a", "A"}

\* Concrete types S that implement Subscriber.  "Ticker" is the one of
\* main(); "Custom" stands for another implementation, one whose call can
\* return Err.
SubscriberTypes == {"Ticker", "Custom"}

\* Types of a payload given to Event::new.
PayloadTypes == {"i32", "i64"}

\* The payloads of the events that are posted: the 32 of main(), a negative
\* i32, and a 32 that is an i64.
Payloads ==
    { [ty |-> "i32", val |-> 32],
      [ty |-> "i32", val |-> -1],
      [ty |-> "i64", val |-> 32] }

\* What TypeId::of::<Box<dyn Subscriber>>() is: the tag of the container a
\* registered subscriber lives in.  No Subscriber implementation exists for
\* Box<dyn Subscriber>, so it is none of SubscriberTypes.
BoxDynSubscriber == "Box<dyn Subscriber>"

\* A Subscriber value.  ty: its concrete type; uid: which value it is
\* (values are numbered in the order they are constructed); calls: how
\* often call() ran on it (its private state).
Subscriber(ty, uid) == [ty |-> ty, uid |-> uid, calls |-> 0]

\* Event::new(name, data): the name and the boxed payload, which remembers
\* the type it was built from.
Event(name, payload) == [name |-> name, data |-> payload]

\* Variant of Event::data that does not look at the type of the payload
\* (an unchecked downcast): the stored value is handed out as a T.
data_unchecked(event, T) == [panic |-> FALSE, val |-> event.data.val]

\* Event::data::<T>(): downcast_ref::<T>() is Some(&value) exactly when T
\* is the type the payload was built from; unwrap() panics on None.
data(event, T) ==
    IF event.data.ty = T
    THEN [panic |-> FALSE, val |-> event.data.val]
    ELSE [panic |-> TRUE, val |-> 0]

\* Subscriber::call(&mut self, event).  Ticker prints event.data::<i32>()
\* and returns Ok(()); it panics inside data() when the payload is no i32.
\* A Custom subscriber reads the payload in the same way and returns Err
\* when it is negative.  The result names the subscriber after the call and
\* what came back.
call(self, event) ==
    LET after == [self EXCEPT !.calls = @ + 1]
        d     == data(event, "i32")
    IN  [self |-> after,
         ret  |-> IF d.panic THEN "panic"
                  ELSE IF self.ty = "Custom" /\ d.val < 0 THEN "Err"
                  ELSE "Ok"]

\* ------------------------------------------------------------------------
\* The HashMap<String, Vec<Box<dyn Subscriber>>>
\* ------------------------------------------------------------------------
EmptyMap == [n \in {} |-> <<>>]

\* HashMap::insert(key, value)
insert(map, key, value) ==
    [n \in DOMAIN map \cup {key} |-> IF n = key THEN value ELSE map[n]]

\* HashMap::get / get_mut: Some exactly when the key is present, by exact
\* string equality.
contains_key(map, key) == key \in DOMAIN map

\* Vec::remove(index): the elements after index move one place down
remove(vec, index) ==
    SubSeq(vec, 1, index - 1) \o SubSeq(vec, index + 1, Len(vec))

\* Vec::push(value)
push(vec, value) == Append(vec, value)

\* ------------------------------------------------------------------------
\* Operations of EventBus, as functions of the map
\* ------------------------------------------------------------------------
\* EventBus::new()
new == EmptyMap

\* Variant of from that drops its argument and builds the bus of new()
from_nothing(initial) == EmptyMap

\* EventBus::from(event_subscribers)
from(initial) == initial

\* Variant of subscribe that puts the subscriber at the front of the Vec
\* (Vec::insert(0, ..) in place of push).
subscribe_at_front(map, event_name, subscriber) ==
    IF contains_key(map, event_name)
    THEN [map EXCEPT ![event_name] = <<subscriber>> \o @]
    ELSE insert(map, event_name, <<subscriber>>)

\* Variant of subscribe without the match: the name is always inserted
\* with a Vec of one, which replaces the Vec it had.
subscribe_replace(map, event_name, subscriber) ==
    insert(map, event_name, <<subscriber>>)

\* EventBus::subscribe: push onto the Vec of the name, or insert a Vec of
\* one when the name is not a key yet.
subscribe(map, event_name, subscriber) ==
    IF contains_key(map, event_name)
    THEN [map EXCEPT ![event_name] = push(@, subscriber)]
    ELSE insert(map, event_name, <<subscriber>>)

\* event_subscriber.type_id() inside the closure of unsubscribe.  The
\* closure's argument is a &Box<dyn Subscriber>, and Any is in scope, so the
\* call resolves to Any::type_id of the Box itself: the tag of the
\* container, whatever value is inside.
type_id_of_registered(event_subscriber) == BoxDynSubscriber

\* subscriber.type_id() of the argument of unsubscribe, a value of the
\* concrete type S: the tag of S.
type_id_of_argument(subscriber) == subscriber.ty

\* Variant of position whose closure accepts every element: the first
\* index of a Vec that is not empty.
position_of_any(subscribers, subscriber) ==
    IF subscribers = <<>> THEN 0 ELSE 1

\* subscribers.iter().position(|event_subscriber| ...): the first index
\* whose tag equals the argument's, 0 standing for None.
position(subscribers, subscriber) ==
    LET hits == {i \in 1..Len(subscribers) :
                    type_id_of_registered(subscribers[i])
                        = type_id_of_argument(subscriber)}
    IN  IF hits = {} THEN 0
        ELSE CHOOSE i \in hits : \A j \in hits : i <= j

\* Variant of unsubscribe that takes the whole entry of the name out of the
\* map (HashMap::remove in place of Vec::remove).
unsubscribe_remove_key(map, event_name, subscriber) ==
    [n \in DOMAIN map \ {event_name} |-> map[n]]

\* EventBus::unsubscribe
unsubscribe(map, event_name, subscriber) ==
    IF contains_key(map, event_name)
    THEN LET index == position(map[event_name], subscriber)
         IN  IF index # 0
             THEN [map EXCEPT ![event_name] = remove(@, index)]
             ELSE map
    ELSE map

\* Variant of subscribe_all whose loop takes the Vec from the back
\* (subscribers.pop() until the Vec is empty).
RECURSIVE subscribe_all_from_back(_, _, _)
subscribe_all_from_back(map, event_name, subscribers) ==
    IF subscribers = <<>> THEN map
    ELSE subscribe_all_from_back(
             subscribe(map, event_name, subscribers[Len(subscribers)]),
             event_name, SubSeq(subscribers, 1, Len(subscribers) - 1))

\* EventBus::subscribe_all: the for loop over the Vec, front to back
RECURSIVE subscribe_all(_, _, _)
subscribe_all(map, event_name, subscribers) ==
    IF subscribers = <<>> THEN map
    ELSE subscribe_all(subscribe(map, event_name, Head(subscribers)),
                       event_name, Tail(subscribers))

\* Variant of unsubscribe_all that empties the Vec of the name when it is
\* given subscribers to remove (Vec::clear in place of the loop).
unsubscribe_all_clear(map, event_name, subscribers) ==
    IF subscribers # <<>> /\ contains_key(map, event_name)
    THEN [map EXCEPT ![event_name] = <<>>]
    ELSE map

\* EventBus::unsubscribe_all: the for loop over the Vec, front to back
RECURSIVE unsubscribe_all(_, _, _)
unsubscribe_all(map, event_name, subscribers) ==
    IF subscribers = <<>> THEN map
    ELSE unsubscribe_all(unsubscribe(map, event_name, Head(subscribers)),
                         event_name, Tail(subscribers))

\* ------------------------------------------------------------------------
\* What the registration operations return
\* ------------------------------------------------------------------------
\* Option::unwrap(): panics on None
unwrap(is_some) == IF is_some THEN "ok" ELSE "panic"

\* Result::expect(): panics unless the result is Ok
expect(result) == IF result = "ok" THEN "ok" ELSE "panic"

\* How subscribe ends: in the Some arm of the match the get_mut of the
\* same key is unwrapped, then Ok(()) is returned.
subscribe_returns(map, event_name, subscriber) ==
    IF contains_key(map, event_name)
    THEN unwrap(contains_key(map, event_name))
    ELSE "ok"

\* Variant of the end of unsubscribe as in the line that is commented out
\* in the source: get_mut(..).unwrap() and position(..).unwrap().
unsubscribe_returns_unwrap(map, event_name, subscriber) ==
    IF unwrap(contains_key(map, event_name)) = "ok"
    THEN unwrap(position(map[event_name], subscriber) # 0)
    ELSE "panic"

\* How unsubscribe ends: Vec::remove panics when the index is not in the
\* Vec; in every other case Ok(()) is returned.
unsubscribe_returns(map, event_name, subscriber) ==
    IF contains_key(map, event_name)
    THEN LET index == position(map[event_name], subscriber)
         IN  IF index # 0
             THEN unwrap(index <= Len(map[event_name]))
             ELSE "ok"
    ELSE "ok"

\* How subscribe_all ends: every subscribe of the loop is expect()ed
RECURSIVE subscribe_all_returns(_, _, _)
subscribe_all_returns(map, event_name, subscribers) ==
    IF subscribers = <<>> THEN "ok"
    ELSE IF expect(subscribe_returns(map, event_name, Head(subscribers)))
               = "ok"
         THEN subscribe_all_returns(
                  subscribe(map, event_name, Head(subscribers)),
                  event_name, Tail(subscribers))
         ELSE "panic"

\* How unsubscribe_all ends: every unsubscribe of the loop is expect()ed
RECURSIVE unsubscribe_all_returns(_, _, _)
unsubscribe_all_returns(map, event_name, subscribers) ==
    IF subscribers = <<>> THEN "ok"
    ELSE IF expect(unsubscribe_returns(map, event_name, Head(subscribers)))
               = "ok"
         THEN unsubscribe_all_returns(
                  unsubscribe(map, event_name, Head(subscribers)),
                  event_name, Tail(subscribers))
         ELSE "panic"

\* One record of the history of a post: which subscriber was called, with
\* an event of which name.
Invocation(subscriber, event) ==
    [uid |-> subscriber.uid, ty |-> subscriber.ty, name |-> event.name]

\* Variant of the loop of post that stops one subscriber early (an
\* off-by-one in the bound of the loop).
RECURSIVE post_loop_short(_, _, _, _)
post_loop_short(subscribers, event, i, calls) ==
    IF i >= Len(subscribers)
    THEN [subscribers |-> subscribers, invoked |-> calls, result |-> "ok"]
    ELSE LET r     == call(subscribers[i], event)
             subs2 == [subscribers EXCEPT ![i] = r.self]
             log2  == Append(calls, Invocation(subscribers[i], event))
         IN  IF r.ret = "Ok"
             THEN post_loop_short(subs2, event, i + 1, log2)
             ELSE [subscribers |-> subs2, invoked |-> log2, result |-> "panic"]

\* Variant of the loop of post that goes on after a call that failed
\* (the failure is collected, not made fatal at once).
RECURSIVE post_loop_continue(_, _, _, _)
post_loop_continue(subscribers, event, i, calls) ==
    IF i > Len(subscribers)
    THEN [subscribers |-> subscribers, invoked |-> calls,
          result |-> IF \E k \in 1..Len(subscribers) :
                           call([subscribers[k] EXCEPT !.calls = @ - 1],
                                event).ret # "Ok"
                     THEN "panic" ELSE "ok"]
    ELSE LET r     == call(subscribers[i], event)
             subs2 == [subscribers EXCEPT ![i] = r.self]
             log2  == Append(calls, Invocation(subscribers[i], event))
         IN  post_loop_continue(subs2, event, i + 1, log2)

\* The for loop of post from index i on.  A call that returns Err makes
\* expect() panic, a panic inside call unwinds as well: both end the loop
\* there.  The result is the Vec after the calls, the calls made, and how
\* the loop ended.
RECURSIVE post_loop(_, _, _, _)
post_loop(subscribers, event, i, calls) ==
    IF i > Len(subscribers)
    THEN [subscribers |-> subscribers, invoked |-> calls, result |-> "ok"]
    ELSE LET r     == call(subscribers[i], event)
             subs2 == [subscribers EXCEPT ![i] = r.self]
             log2  == Append(calls, Invocation(subscribers[i], event))
         IN  IF r.ret = "Ok"
             THEN post_loop(subs2, event, i + 1, log2)
             ELSE [subscribers |-> subs2, invoked |-> log2, result |-> "panic"]

\* A name with its ASCII letters in lower case
to_lowercase(name) == IF name = "A" THEN "a" ELSE name

\* Variant of post that looks the name up without regard to case: the Vec
\* of a key that equals the name once both are in lower case.
post_ignore_case(map, event) ==
    LET keys == {k \in DOMAIN map :
                    to_lowercase(k) = to_lowercase(event.name)}
    IN  IF keys # {}
        THEN LET key == IF event.name \in keys THEN event.name
                        ELSE CHOOSE k \in keys : TRUE
                 r   == post_loop(map[key], event, 1, <<>>)
             IN  [map     |-> [map EXCEPT ![key] = r.subscribers],
                  invoked |-> r.invoked,
                  result  |-> r.result]
        ELSE [map |-> map, invoked |-> <<>>, result |-> "ok"]

\* Variant of post that looks the name up with entry().or_default(): a name
\* that is no key becomes a key with an empty Vec.
post_or_default(map, event) ==
    LET present == IF contains_key(map, event.name) THEN map
                   ELSE insert(map, event.name, <<>>)
        r       == post_loop(present[event.name], event, 1, <<>>)
    IN  [map     |-> [present EXCEPT ![event.name] = r.subscribers],
         invoked |-> r.invoked,
         result  |-> r.result]

\* Variant of post whose loop goes through a copy of the Vec: the calls are
\* made, but on subscribers that are dropped after the loop.
post_on_copy(map, event) ==
    IF contains_key(map, event.name)
    THEN LET r == post_loop(map[event.name], event, 1, <<>>)
         IN  [map |-> map, invoked |-> r.invoked, result |-> r.result]
    ELSE [map |-> map, invoked |-> <<>>, result |-> "ok"]

\* EventBus::post: nothing happens when the name is not a key
post(map, event) ==
    IF contains_key(map, event.name)
    THEN LET r == post_loop(map[event.name], event, 1, <<>>)
         IN  [map     |-> [map EXCEPT ![event.name] = r.subscribers],
              invoked |-> r.invoked,
              result  |-> r.result]
    ELSE [map |-> map, invoked |-> <<>>, result |-> "ok"]

\* ------------------------------------------------------------------------
\* State
\* ------------------------------------------------------------------------
VARIABLES
    event_subscribers,  \* EventBus.event_subscribers
    initial,            \* history: the map the bus was constructed from
    nextUid,            \* number given to the next Subscriber constructed
    registeredUnder,    \* history: uid -> the name it was subscribed under
    posted,             \* history: uid -> the posts of its name since then
    before,             \* history: event_subscribers before the last operation
    last,               \* history: the last operation, its arguments and outcome
    invoked             \* history: the calls made by the last post, in order

vars == <<event_subscribers, initial, nextUid, registeredUnder, posted, before,
          last, invoked>>

\* The Vec a name has in a map, empty when the name is no key
SubscribersOf(map, event_name) ==
    IF contains_key(map, event_name) THEN map[event_name] ELSE <<>>

\* The record of an operation in the history
Op(op, name, args, payload, result) ==
    [op |-> op, name |-> name, args |-> args, payload |-> payload,
     result |-> result]

\* The payload recorded for an operation that has none
NoPayload == [ty |-> "", val |-> 0]

\* The map given to from(): a Ticker and a Custom subscriber under "a" and
\* an empty Vec under "A".
SeedMap ==
    insert(insert(EmptyMap, "A", <<>>),
           "a", <<Subscriber("Ticker", 1), Subscriber("Custom", 2)>>)

\* The maps a bus is built from: none, by new(), or SeedMap, by from()
InitialMaps == {EmptyMap, SeedMap}

\* The subscribers an initial map holds
Registered(map) ==
    UNION {{[uid |-> map[n][i].uid, name |-> n] : i \in 1..Len(map[n])}
              : n \in DOMAIN map}

RegisteredUids(map) == {r.uid : r \in Registered(map)}

Init ==
    /\ initial \in InitialMaps
    /\ event_subscribers = IF initial = EmptyMap THEN new ELSE from(initial)
    /\ nextUid = Cardinality(RegisteredUids(initial)) + 1
    /\ registeredUnder =
          [u \in RegisteredUids(initial) |->
              (CHOOSE r \in Registered(initial) : r.uid = u).name]
    /\ posted = [u \in RegisteredUids(initial) |-> 0]
    /\ last = Op(IF initial = EmptyMap THEN "new" ELSE "from",
                 "", <<>>, NoPayload, "ok")
    /\ before = event_subscribers
    /\ invoked = <<>>

\* A panic ends the program: nothing runs after it.
Running == last.result = "ok"

\* How many subscribers were registered after the bus was constructed
Subscribed == nextUid - 1 - Cardinality(RegisteredUids(initial))

\* The Vec of n newly constructed subscribers of one type S, numbered from
\* uid on in the order of the Vec
NewVec(ty, uid, n) == [i \in 1..n |-> Subscriber(ty, uid + i - 1)]

\* The Vecs of n subscribers of one type S built only to name what is to
\* be unsubscribed: they are dropped by the call and carry no number.
UnsubVec(ty, n) == [i \in 1..n |-> Subscriber(ty, 0)]

\* registeredUnder once the subscribers of a Vec are subscribed under a name
Record(subscribers, event_name) ==
    LET uids == {subscribers[i].uid : i \in 1..Len(subscribers)}
    IN  [u \in DOMAIN registeredUnder \cup uids |->
            IF u \in DOMAIN registeredUnder THEN registeredUnder[u]
            ELSE event_name]

\* posted once the subscribers of a Vec are subscribed: no post yet
Unposted(subscribers) ==
    LET uids == {subscribers[i].uid : i \in 1..Len(subscribers)}
    IN  [u \in DOMAIN posted \cup uids |->
            IF u \in DOMAIN posted THEN posted[u] ELSE 0]

\* posted once an event of a name is posted: one post more for every
\* subscriber that is in the Vec of the name
Posted(event_name) ==
    LET uids == {SubscribersOf(event_subscribers, event_name)[i].uid :
                    i \in 1..Len(SubscribersOf(event_subscribers, event_name))}
    IN  [u \in DOMAIN posted |->
            IF u \in uids THEN posted[u] + 1 ELSE posted[u]]

SubscribeStep ==
    /\ Running
    /\ before' = event_subscribers
    /\ Subscribed < MaxSubs
    /\ \E event_name \in Names, ty \in SubscriberTypes :
          LET subscriber == Subscriber(ty, nextUid)
          IN  /\ event_subscribers' =
                    subscribe(event_subscribers, event_name, subscriber)
              /\ registeredUnder' = Record(<<subscriber>>, event_name)
              /\ posted' = Unposted(<<subscriber>>)
              /\ last' = Op("subscribe", event_name, <<subscriber>>,
                            NoPayload,
                            subscribe_returns(event_subscribers, event_name,
                                              subscriber))
    /\ nextUid' = nextUid + 1
    /\ invoked' = <<>>
    /\ UNCHANGED initial

UnsubscribeStep ==
    /\ Running
    /\ before' = event_subscribers
    /\ \E event_name \in Names, ty \in SubscriberTypes :
          LET subscriber == Subscriber(ty, 0)
          IN  /\ event_subscribers' =
                    unsubscribe(event_subscribers, event_name, subscriber)
              /\ last' = Op("unsubscribe", event_name, <<subscriber>>,
                            NoPayload,
                            unsubscribe_returns(event_subscribers, event_name,
                                                subscriber))
    /\ invoked' = <<>>
    /\ UNCHANGED <<initial, nextUid, registeredUnder, posted>>

SubscribeAllStep ==
    /\ Running
    /\ before' = event_subscribers
    /\ \E event_name \in Names, ty \in SubscriberTypes, n \in 0..MaxList :
         /\ Subscribed + n <= MaxSubs
         /\ LET subscribers == NewVec(ty, nextUid, n)
            IN  /\ event_subscribers' =
                      subscribe_all(event_subscribers, event_name, subscribers)
                /\ registeredUnder' = Record(subscribers, event_name)
                /\ posted' = Unposted(subscribers)
                /\ last' = Op("subscribe_all", event_name, subscribers,
                              NoPayload,
                              subscribe_all_returns(event_subscribers,
                                                    event_name, subscribers))
         /\ nextUid' = nextUid + n
    /\ invoked' = <<>>
    /\ UNCHANGED initial

UnsubscribeAllStep ==
    /\ Running
    /\ before' = event_subscribers
    /\ \E event_name \in Names, ty \in SubscriberTypes, n \in 0..MaxList :
          LET subscribers == UnsubVec(ty, n)
          IN  /\ event_subscribers' =
                    unsubscribe_all(event_subscribers, event_name, subscribers)
              /\ last' = Op("unsubscribe_all", event_name, subscribers,
                            NoPayload,
                            unsubscribe_all_returns(event_subscribers,
                                                    event_name, subscribers))
    /\ invoked' = <<>>
    /\ UNCHANGED <<initial, nextUid, registeredUnder, posted>>

\* The calls made so far on the subscribers of a Vec from index i on
RECURSIVE CallsFrom(_, _)
CallsFrom(subscribers, i) ==
    IF i > Len(subscribers) THEN 0
    ELSE subscribers[i].calls + CallsFrom(subscribers, i + 1)

\* The calls made so far on the subscribers of the names in a set
RECURSIVE CallsUnder(_)
CallsUnder(names) ==
    IF names = {} THEN 0
    ELSE LET n == CHOOSE x \in names : TRUE
         IN  CallsFrom(event_subscribers[n], 1) + CallsUnder(names \ {n})

\* The post of an event stays within MaxCalls calls
CallsLeft(event) ==
    CallsUnder(DOMAIN event_subscribers)
       + Len(post(event_subscribers, event).invoked) <= MaxCalls

PostStep ==
    /\ Running
    /\ before' = event_subscribers
    /\ \E event_name \in Names, payload \in Payloads :
         /\ CallsLeft(Event(event_name, payload))
         /\ LET r == post(event_subscribers, Event(event_name, payload))
            IN  /\ event_subscribers' = r.map
                /\ invoked' = r.invoked
                /\ last' = Op("post", event_name, <<>>, payload, r.result)
         /\ posted' = Posted(event_name)
    /\ UNCHANGED <<initial, nextUid, registeredUnder>>

Next ==
    \/ SubscribeStep
    \/ UnsubscribeStep
    \/ SubscribeAllStep
    \/ UnsubscribeAllStep
    \/ PostStep

Spec == Init /\ [][Next]_vars

\* ---------------------------------------------------------------------
\* EventBus::post step by step: the loop of post, one call at a time. While
\* a post runs, last is the record of the running post: its result is
\* "running" between two calls and "calling" while a subscriber runs, and
\* invoked holds the calls begun so far.

\* Variant of the loop's end that leaves the loop one subscriber early.
for_done_early(subscribers, calls) == Len(calls) + 1 >= Len(subscribers)

\* for subscriber in subscribers: the iterator has no subscriber left
for_done(subscribers, calls) == Len(calls) >= Len(subscribers)

Posting == last.op = "posting"

\* The event of the post recorded in last
Posted_event == Event(last.name, last.payload)

\* post is entered: the Vec of the event's name is looked up
PostBegin ==
    /\ Running
    /\ \E event_name \in Names, payload \in Payloads :
         /\ CallsLeft(Event(event_name, payload))
         /\ last' = Op("posting", event_name, <<>>, payload, "running")
         /\ posted' = Posted(event_name)
    /\ before' = event_subscribers
    /\ invoked' = <<>>
    /\ UNCHANGED <<event_subscribers, initial, nextUid, registeredUnder>>

\* subscriber.call(&event) is entered for the next subscriber of the Vec
PostCall ==
    /\ Posting
    /\ last.result = "running"
    /\ LET subscribers == SubscribersOf(event_subscribers, last.name)
       IN  /\ ~for_done(subscribers, invoked)
           /\ invoked' = Append(invoked,
                            Invocation(subscribers[Len(invoked) + 1],
                                       Posted_event))
    /\ last' = [last EXCEPT !.result = "calling"]
    /\ UNCHANGED <<event_subscribers, initial, nextUid, registeredUnder,
                   posted, before>>

\* The call returns: with Ok the loop goes on, with Err expect panics, and a
\* panic within the call ends the post as well
CallReturn ==
    /\ Posting
    /\ last.result = "calling"
    /\ LET i == Len(invoked)
           r == call(event_subscribers[last.name][i], Posted_event)
       IN  /\ event_subscribers' =
                 [event_subscribers EXCEPT ![last.name][i] = r.self]
           /\ last' = IF r.ret = "Ok"
                      THEN [last EXCEPT !.result = "running"]
                      ELSE Op("post", last.name, <<>>, last.payload, "panic")
    /\ UNCHANGED <<initial, nextUid, registeredUnder, posted, before, invoked>>

\* The loop is over, or the name is not a key: post returns
PostReturn ==
    /\ Posting
    /\ last.result = "running"
    /\ for_done(SubscribersOf(event_subscribers, last.name), invoked)
    /\ last' = Op("post", last.name, <<>>, last.payload, "ok")
    /\ UNCHANGED <<event_subscribers, initial, nextUid, registeredUnder,
                   posted, before, invoked>>

NextSteps ==
    \/ SubscribeStep
    \/ UnsubscribeStep
    \/ SubscribeAllStep
    \/ UnsubscribeAllStep
    \/ PostBegin
    \/ PostCall
    \/ CallReturn
    \/ PostReturn

\* post runs on the caller's thread with nothing else running, so a step of
\* the loop that can be taken is taken; a call that has begun returns.
SpecSteps ==
    /\ Init
    /\ [][NextSteps]_vars
    /\ WF_vars(PostCall)
    /\ WF_vars(CallReturn)
    /\ WF_vars(PostReturn)

\* ------------------------------------------------------------------------
\* Properties
\* ------------------------------------------------------------------------
\* The uids of a Vec of subscribers, in the order of the Vec
Uids(subscribers) == [i \in 1..Len(subscribers) |-> subscribers[i].uid]

PostDone == last.op = "post"

\* C1: one post calls the subscribers of the event's name strictly in the
\* order they were registered: of two calls of the post, the earlier one is
\* to the subscriber registered earlier (subscribers are numbered in the
\* order they are registered), and the calls follow the Vec of the name
\* without a gap or a swap.
C1_RegistrationOrder ==
    PostDone =>
        /\ \A i, j \in 1..Len(invoked) :
              i < j => invoked[i].uid < invoked[j].uid
        /\ invoked =
              [i \in 1..Len(invoked) |->
                  Invocation(SubscribersOf(before, last.name)[i],
                             Event(last.name, last.payload))]

\* A post that returned has called two subscribers of different types,
\* registered one after the other under its name.
C1_Witness ==
    /\ PostDone
    /\ last.result = "ok"
    /\ Len(invoked) = 2
    /\ invoked[1].ty # invoked[2].ty

\* C2: a post during which no subscriber fails calls every entry of the
\* Vec of the event's name exactly once, with an event of that name: as many
\* calls as entries, so a type registered k times is called k times.
C2_EachEntryOnce ==
    (PostDone /\ last.result = "ok") =>
        LET subscribers == SubscribersOf(before, last.name)
        IN  /\ Len(invoked) = Len(subscribers)
            /\ \A i \in 1..Len(subscribers) :
                  /\ Cardinality({j \in 1..Len(invoked) :
                                    invoked[j].uid = subscribers[i].uid}) = 1
                  /\ event_subscribers[last.name][i].calls
                        = subscribers[i].calls + 1
            /\ \A j \in 1..Len(invoked) : invoked[j].name = last.name
            /\ \A ty \in SubscriberTypes :
                  Cardinality({j \in 1..Len(invoked) : invoked[j].ty = ty})
                     = Cardinality({i \in 1..Len(subscribers) :
                                       subscribers[i].ty = ty})

\* A post that returned has called two subscribers of one type registered
\* under its name.
C2_Witness ==
    /\ PostDone
    /\ last.result = "ok"
    /\ Len(invoked) >= 2
    /\ invoked[1].ty = invoked[2].ty
    /\ invoked[1].uid # invoked[2].uid

\* The operation done last was unsubscribe(last.name, Argument)
UnsubscribeDone == last.op = "unsubscribe"

Argument == last.args[1]

\* The indexes of a Vec that hold a subscriber of a concrete type
OfType(subscribers, ty) ==
    {i \in 1..Len(subscribers) : subscribers[i].ty = ty}

\* What a post of the event of main() under a name would call in a map
WouldInvoke(map, event_name) ==
    post(map, Event(event_name, [ty |-> "i32", val |-> 32]))

\* C3: when every subscriber under a name has the type of the argument and
\* there are two, or one, of them, a post after unsubscribe calls one
\* fewer: one call left of two, none left of one.
C3_UnsubscribeOneFewer ==
    LET subscribers == SubscribersOf(before, last.name)
    IN  ( /\ UnsubscribeDone
          /\ Len(subscribers) \in {1, 2}
          /\ OfType(subscribers, Argument.ty) = 1..Len(subscribers)
          /\ WouldInvoke(before, last.name).result = "ok"
          /\ Len(WouldInvoke(before, last.name).invoked) = Len(subscribers) )
        => Len(WouldInvoke(event_subscribers, last.name).invoked)
              = Len(subscribers) - 1

\* C4: when the Vec of the name holds a subscriber of the argument's
\* concrete type, unsubscribe removes the earliest of them and nothing else:
\* the rest of the Vec keeps its order and the other names keep their Vecs.
C4_RemovesEarliestOfType ==
    LET subscribers == SubscribersOf(before, last.name)
        hits        == OfType(subscribers, Argument.ty)
    IN  (UnsubscribeDone /\ hits # {}) =>
           LET first == CHOOSE i \in hits : \A j \in hits : i <= j
           IN  event_subscribers =
                  [before EXCEPT ![last.name] = remove(subscribers, first)]

\* The first index of a Vec whose call on an event does not return Ok, 0
\* when every call does
FirstFailing(subscribers, event) ==
    LET bad == {i \in 1..Len(subscribers) :
                  call(subscribers[i], event).ret # "Ok"}
    IN  IF bad = {} THEN 0 ELSE CHOOSE i \in bad : \A j \in bad : i <= j

\* C5: when the i-th subscriber of the event's name is the first to fail,
\* post ends abnormally there: subscribers 1..i were called once each, in
\* order, and no later one was called; and a post ends abnormally only so.
C5_FailFast ==
    PostDone =>
        LET subscribers == SubscribersOf(before, last.name)
            i == FirstFailing(subscribers, Event(last.name, last.payload))
        IN  /\ (last.result = "panic") = (i # 0)
            /\ i # 0 =>
                 /\ Uids(invoked) = Uids(SubSeq(subscribers, 1, i))
                 /\ \A k \in 1..Len(subscribers) :
                       event_subscribers[last.name][k].calls =
                          subscribers[k].calls + (IF k <= i THEN 1 ELSE 0)

\* A post ended abnormally at the second subscriber, which returned Err,
\* after calling the one before it and leaving two after it uncalled.
C5_Witness ==
    /\ PostDone
    /\ last.result = "panic"
    /\ Len(invoked) = 2
    /\ Len(before[last.name]) = 4
    /\ before[last.name][2].ty = "Custom"
    /\ last.payload.ty = "i32"
    /\ last.payload.val < 0

\* C6: a post of a name that is no key of the map calls nothing, returns,
\* and leaves the map as it was.
C6_UnknownNamePost ==
    (PostDone /\ ~contains_key(before, last.name)) =>
        /\ invoked = <<>>
        /\ last.result = "ok"
        /\ event_subscribers = before

\* An event was posted on a bus made by new() that nothing was subscribed to.
C6_Witness ==
    /\ PostDone
    /\ before = new
    /\ last.result = "ok"

\* C7: unsubscribe of a name that is no key, or whose Vec holds no
\* subscriber of the argument's type, returns ok and leaves the map as it
\* was, so that a later post calls what it would have called without it.
C7_UnsubscribeAbsent ==
    ( /\ UnsubscribeDone
      /\ OfType(SubscribersOf(before, last.name), Argument.ty) = {} )
    => /\ last.result = "ok"
       /\ event_subscribers = before
       /\ \A n \in Names :
             WouldInvoke(event_subscribers, n) = WouldInvoke(before, n)

\* unsubscribe was called for a name whose Vec holds subscribers, none of
\* the argument's type.
C7_Witness ==
    /\ UnsubscribeDone
    /\ contains_key(before, last.name)
    /\ before[last.name] # <<>>
    /\ OfType(before[last.name], Argument.ty) = {}

\* The map after subscribe was called for the first k subscribers of a
\* Vec, one call after the other
RECURSIVE SubscribeEach(_, _, _, _)
SubscribeEach(map, event_name, subscribers, k) ==
    IF k = 0 THEN map
    ELSE subscribe(SubscribeEach(map, event_name, subscribers, k - 1),
                   event_name, subscribers[k])

\* C8: subscribe_all(N, [h1..hk]) leaves the map that subscribe(N, h1); ...;
\* subscribe(N, hk) leaves, so that every later post calls the same
\* subscribers in the same order; the Vec of N is the old one followed by
\* h1..hk and no other name changes.
C8_SubscribeAllIsEach ==
    last.op = "subscribe_all" =>
        /\ event_subscribers =
              SubscribeEach(before, last.name, last.args, Len(last.args))
        /\ \A n \in Names, payload \in Payloads :
              post(event_subscribers, Event(n, payload)) =
                 post(SubscribeEach(before, last.name, last.args,
                                    Len(last.args)),
                      Event(n, payload))
        /\ last.args # <<>> =>
              /\ event_subscribers[last.name] =
                    SubscribersOf(before, last.name) \o last.args
              /\ \A n \in DOMAIN event_subscribers \ {last.name} :
                    n \in DOMAIN before /\ event_subscribers[n] = before[n]
        /\ last.args = <<>> => event_subscribers = before

\* subscribe_all was called with two subscribers for a name that had some.
C8_Witness ==
    /\ last.op = "subscribe_all"
    /\ Len(last.args) = 2
    /\ SubscribersOf(before, last.name) # <<>>

\* The map after unsubscribe was called for the first k subscribers of a
\* Vec, one call after the other
RECURSIVE UnsubscribeEach(_, _, _, _)
UnsubscribeEach(map, event_name, subscribers, k) ==
    IF k = 0 THEN map
    ELSE unsubscribe(UnsubscribeEach(map, event_name, subscribers, k - 1),
                     event_name, subscribers[k])

\* C9: unsubscribe_all(N, [h1..hk]) leaves the map that unsubscribe(N, h1);
\* ...; unsubscribe(N, hk) leaves, and takes at most k subscribers away.
C9_UnsubscribeAllIsEach ==
    last.op = "unsubscribe_all" =>
        /\ event_subscribers =
              UnsubscribeEach(before, last.name, last.args, Len(last.args))
        /\ DOMAIN event_subscribers = DOMAIN before
        /\ \A n \in DOMAIN before :
              Len(before[n]) - Len(event_subscribers[n]) \in
                 0..(IF n = last.name THEN Len(last.args) ELSE 0)

\* unsubscribe_all was called with two subscribers for a name that has two
\* subscribers or more of their type.
C9_Witness ==
    /\ last.op = "unsubscribe_all"
    /\ Len(last.args) = 2
    /\ Cardinality(OfType(SubscribersOf(before, last.name),
                          last.args[1].ty)) >= 2

\* C10: a post calls only subscribers registered under exactly the name of
\* its event; a subscriber under any other name, one that differs only in
\* case or the empty name included, is left uncalled.
C10_NameIsolation ==
    PostDone =>
        /\ \A i \in 1..Len(invoked) :
              registeredUnder[invoked[i].uid] = last.name
        /\ \A n \in DOMAIN before \ {last.name} :
              event_subscribers[n] = before[n]

\* A post of "a" called a subscriber while subscribers were registered
\* under "A" and under "", and left both uncalled.
C10_Witness ==
    /\ PostDone
    /\ last.name = "a"
    /\ invoked # <<>>
    /\ SubscribersOf(event_subscribers, "A") # <<>>
    /\ SubscribersOf(event_subscribers, "") # <<>>
    /\ \A n \in {"A", ""} :
          \A i \in 1..Len(event_subscribers[n]) :
             event_subscribers[n][i].calls = 0

\* The operations that register and unregister subscribers
RegistrationOps ==
    {"subscribe", "unsubscribe", "subscribe_all", "unsubscribe_all"}

\* C11: subscribe, unsubscribe, subscribe_all and unsubscribe_all return ok
\* and never end abnormally, in every state the bus reaches and for every
\* name and subscriber type they are given.
C11_RegistrationNeverFails ==
    /\ last.op \in RegistrationOps => last.result = "ok"
    /\ Running =>
          \A n \in Names, ty \in SubscriberTypes :
             /\ subscribe_returns(event_subscribers, n,
                                  Subscriber(ty, nextUid)) = "ok"
             /\ unsubscribe_returns(event_subscribers, n,
                                    Subscriber(ty, 0)) = "ok"
             /\ \A k \in 0..MaxList :
                   /\ subscribe_all_returns(event_subscribers, n,
                                            NewVec(ty, nextUid, k)) = "ok"
                   /\ unsubscribe_all_returns(event_subscribers, n,
                                              UnsubVec(ty, k)) = "ok"

\* unsubscribe_all returned after it was given two subscribers for a name
\* that is no key of the map.
C11_Witness ==
    /\ last.op = "unsubscribe_all"
    /\ Len(last.args) = 2
    /\ ~contains_key(before, last.name)
    /\ last.result = "ok"

\* C12: the payload of an event built from a value of type T is read back
\* as T unchanged, and reading it as any other type is fatal and hands out
\* no value.  In a post the first subscriber called reads the payload as an
\* i32: the post ends abnormally there exactly when the payload is no i32,
\* and a Custom subscriber returns Err exactly on the negative i32.
C12_PayloadRoundTrip ==
    /\ \A n \in Names, payload \in Payloads, T \in PayloadTypes :
          LET d == data(Event(n, payload), T)
          IN  /\ T = payload.ty  => (~d.panic /\ d.val = payload.val)
              /\ T # payload.ty => d.panic
    /\ (PostDone /\ invoked # <<>>) =>
          /\ last.payload.ty # "i32" =>
                (last.result = "panic" /\ Len(invoked) = 1)
          /\ last.payload.ty = "i32" =>
                (last.result = "panic") =
                   ( /\ last.payload.val < 0
                     /\ invoked[Len(invoked)].ty = "Custom" )

\* A post of the i32 -1 ended at a Custom subscriber, which read the -1,
\* after a Ticker had read it and returned Ok.
C12_Witness ==
    /\ PostDone
    /\ last.payload = [ty |-> "i32", val |-> -1]
    /\ last.result = "panic"
    /\ Len(invoked) = 2
    /\ invoked[2].ty = "Custom"

\* C13: subscribe(N, H) puts H at the end of the Vec of N, a Vec of one
\* when N was no key; the subscribers N had keep their places, and the Vec
\* of every other name is as it was.
C13_SubscribeAppends ==
    last.op = "subscribe" =>
        /\ DOMAIN event_subscribers = DOMAIN before \cup {last.name}
        /\ event_subscribers[last.name] =
              SubscribersOf(before, last.name) \o <<Argument>>
        /\ ~contains_key(before, last.name) =>
              event_subscribers[last.name] = <<Argument>>
        /\ \A i \in 1..Len(SubscribersOf(before, last.name)) :
              event_subscribers[last.name][i] = before[last.name][i]
        /\ \A n \in DOMAIN before \ {last.name} :
              event_subscribers[n] = before[n]

\* subscribe was called for a name that had subscribers while another name
\* had some too.
C13_Witness ==
    /\ last.op = "subscribe"
    /\ SubscribersOf(before, last.name) # <<>>
    /\ \E n \in DOMAIN before \ {last.name} : before[n] # <<>>

\* C14: unsubscribe(N, H) takes at most one subscriber away: the Vec of N
\* is as long as it was or one shorter, the names and the Vecs of the names
\* other than N are as they were, and H itself is not registered by the call
\* nor called.
C14_UnsubscribeAtMostOne ==
    UnsubscribeDone =>
        /\ DOMAIN event_subscribers = DOMAIN before
        /\ Len(SubscribersOf(before, last.name))
              - Len(SubscribersOf(event_subscribers, last.name)) \in {0, 1}
        /\ \A n \in DOMAIN before \ {last.name} :
              event_subscribers[n] = before[n]
        /\ \A n \in DOMAIN event_subscribers :
              \A i \in 1..Len(event_subscribers[n]) :
                 /\ event_subscribers[n][i].uid # Argument.uid
                 /\ \E j \in 1..Len(before[n]) :
                       event_subscribers[n][i] = before[n][j]
        /\ invoked = <<>>

\* unsubscribe was called for a name that has two subscribers or more of
\* the argument's type, while another name has subscribers too.
C14_Witness ==
    /\ UnsubscribeDone
    /\ Cardinality(OfType(SubscribersOf(before, last.name), Argument.ty)) >= 2
    /\ \E n \in DOMAIN before \ {last.name} : before[n] # <<>>

\* The subscribers the running or finished post found under its name
PostVec == SubscribersOf(before, last.name)

\* Every subscriber under the name of the post returns from its call with the
\* event of the post, whatever it returns
AllReturn ==
    \A i \in 1..Len(PostVec) :
       call(PostVec[i], Posted_event).ret \in {"Ok", "Err"}

\* Every subscriber under the name of the post returns Ok
AllReturnOk ==
    \A i \in 1..Len(PostVec) : call(PostVec[i], Posted_event).ret = "Ok"

\* Every subscriber of the Vec has been called by the post and has returned
AllCalledAndReturned ==
    /\ Len(invoked) = Len(PostVec)
    /\ \A i \in 1..Len(PostVec) :
          /\ invoked[i].uid = PostVec[i].uid
          /\ SubscribersOf(event_subscribers, last.name)[i].calls =
                PostVec[i].calls + 1

\* C15 as stated: a post whose subscribers all return comes to an end, with
\* every subscriber of the name called; and a post that has returned
\* normally has called every subscriber, and every call has returned.
C15_PostInvokesAllThatReturn ==
    /\ (Posting /\ AllReturn) ~> (PostDone /\ Len(invoked) = Len(PostVec))
    /\ [](PostDone /\ last.result = "ok" => AllCalledAndReturned)

\* C15, amended: every post comes to an end; a post whose subscribers all
\* return Ok returns normally, with every subscriber of the name called; a
\* post that has returned normally has called every subscriber in turn, and
\* every call has returned; and the post step by step ends as the post in
\* one step does.
C15_PostTerminates ==
    /\ Posting ~> PostDone
    /\ (Posting /\ AllReturnOk) ~> (PostDone /\ last.result = "ok")
    /\ [](PostDone /\ last.result = "ok" => AllCalledAndReturned)
    /\ [](PostDone =>
            LET r == post(before, Posted_event)
            IN  /\ event_subscribers = r.map
                /\ invoked = r.invoked
                /\ last.result = r.result)

\* A post has returned normally after two calls, one after the other.
C15_Witness ==
    /\ PostDone
    /\ last.result = "ok"
    /\ Len(invoked) = 2
    /\ AllCalledAndReturned

\* The calls a post of an event makes when it goes through a Vec from the
\* front and no call fails
InOrder(subscribers, event) ==
    [i \in 1..Len(subscribers) |-> Invocation(subscribers[i], event)]

\* C16: a bus built with from(M) holds the map M.  A post of a name of M
\* calls the subscribers of M[N] first and in the order of M[N], a name
\* that M lacks has only the subscribers registered later, and what
\* subscribe registers later under N comes after the subscribers of M[N].
C16_FromHoldsTheMap ==
    /\ last.op = "from" =>
          /\ event_subscribers = initial
          /\ \A n \in Names :
                WouldInvoke(event_subscribers, n).invoked =
                   InOrder(SubscribersOf(initial, n),
                           Event(n, [ty |-> "i32", val |-> 32]))
    /\ \A n \in DOMAIN initial :
          /\ contains_key(event_subscribers, n)
          /\ Len(event_subscribers[n]) >= Len(initial[n])
          /\ Uids(SubSeq(event_subscribers[n], 1, Len(initial[n])))
                = Uids(initial[n])
    /\ \A n \in DOMAIN event_subscribers \ DOMAIN initial :
          \A i \in 1..Len(event_subscribers[n]) :
             event_subscribers[n][i].uid \notin RegisteredUids(initial)
    /\ (PostDone /\ contains_key(initial, last.name)) =>
          LET k == IF Len(invoked) < Len(initial[last.name])
                   THEN Len(invoked) ELSE Len(initial[last.name])
          IN  /\ Uids(SubSeq(invoked, 1, k))
                    = Uids(SubSeq(initial[last.name], 1, k))
              /\ last.result = "ok" => k = Len(initial[last.name])

\* A bus built with from() had a third subscriber subscribed under "a", and
\* a post of "a" called the two subscribers it was built with.
C16_Witness ==
    /\ PostDone
    /\ initial = SeedMap
    /\ last.name = "a"
    /\ Len(before["a"]) = 3
    /\ Uids(invoked) = <<1, 2>>

\* C17: a post, whether it returns or ends abnormally, leaves the map with
\* the names it had and, under every name, the same subscribers in the same
\* order; only the private state of the subscribers it called can differ.
C17_PostKeepsRegistry ==
    PostDone =>
        /\ DOMAIN event_subscribers = DOMAIN before
        /\ \A n \in DOMAIN before :
              /\ Len(event_subscribers[n]) = Len(before[n])
              /\ \A i \in 1..Len(before[n]) :
                    /\ event_subscribers[n][i].uid = before[n][i].uid
                    /\ event_subscribers[n][i].ty = before[n][i].ty
                    /\ event_subscribers[n][i] # before[n][i] =>
                          \E j \in 1..Len(invoked) :
                             invoked[j].uid = before[n][i].uid

\* A post ended abnormally after it had called two subscribers, and a
\* third under its name was left uncalled.
C17_Witness ==
    /\ PostDone
    /\ last.result = "panic"
    /\ Len(invoked) = 2
    /\ Len(before[last.name]) = 3

\* C18: as long as no subscriber has failed, every registered subscriber
\* has been called as often as events of its name were posted while it was
\* registered: its private state lives on from one post to the next, and the
\* posts made before it was subscribed do not count.
C18_StatePersists ==
    Running =>
        \A n \in DOMAIN event_subscribers :
           \A i \in 1..Len(event_subscribers[n]) :
              event_subscribers[n][i].calls =
                 posted[event_subscribers[n][i].uid]

\* A subscriber has been called by two posts, and a subscriber registered
\* under the same name after them has not been called.
C18_Witness ==
    /\ Running
    /\ \E n \in DOMAIN event_subscribers :
          \E i, j \in 1..Len(event_subscribers[n]) :
             /\ event_subscribers[n][i].calls = 2
             /\ event_subscribers[n][j].calls = 0

====
